---- MODULE Spec2Model ----
(***************************************************************************)
(* ix-match: pairing of RGB and NIR .iiq captures by the timestamp in the  *)
(* file name (src/src/lib.rs).  The model follows process_images: the      *)
(* directory check, the recursive discovery, make_iiq_df, the zero-byte    *)
(* filter, join_dataframes (two nearest as-of joins, stacked and           *)
(* de-duplicated), the threshold split and the rename phases.  Every       *)
(* fs::rename and fs::create_dir_all is one step of the state machine, so  *)
(* a run that fails part-way is visible.                                   *)
(***************************************************************************)
EXTENDS Integers, FiniteSets, Sequences, TLC

\* ------------------------------------------------------------- bounds
\* Timestamps are 0..MaxTime milliseconds after some base instant.
MaxTime == 2
\* match_threshold ranges over 0..MaxThresh milliseconds.
MaxThresh == 1
\* Number of .iiq files under the two camera directories together.
MaxFiles == 3
\* The same number for the dry runs of SpecJoin, whose files all have
\* content and a well-formed name.
MaxJoinFiles == 5
\* Number of calls of process_images in one behaviour of SpecRerun, and the
\* number of files its runs start from.
MaxCalls == 2
MaxRerunFiles == 3

\* ---------------------------------------------------- program constants
\* &stem[..16]: the prefix of the stem that holds the timestamp.
StemPrefixLen == 16
\* Duration::from_millis / as_nanos: nanoseconds per millisecond.
NanosPerMilli == 1000000
\* Datetime(TimeUnit::Microseconds): microseconds per millisecond / ns per us.
MicrosPerMilli == 1000
NanosPerMicro == 1000

Channels == {"rgb", "nir"}

\* --------------------------------------------------------- file names
\* A stem is modelled by its length, by whether its first 16 characters
\* match %y%m%d_%H%M%S%3f, and by the instant they denote.
TimeStem(t) == [len |-> StemPrefixLen, valid |-> TRUE, t |-> t]
BadStem == [len |-> StemPrefixLen, valid |-> FALSE, t |-> 0]
ShortStem == [len |-> StemPrefixLen - 1, valid |-> FALSE, t |-> 0]
NullStem == [len |-> 0, valid |-> FALSE, t |-> 0]

Times == 0..MaxTime
Thresholds == 0..MaxThresh

\* A null cell of a Path column (left side without partner in an as-of join).
NoPath == [ch |-> "null", dir |-> "null", name |-> NullStem]
NoEntity == [path |-> NoPath, ts |-> -1, bytes |-> 0]
\* A null cell of the dt column.
NullDt == -1

VARIABLES
    fs,        \* the .iiq files on disk: [ch, dir, name, bytes, from]
    dirs,      \* created subdirectories: <<channel, "unmatched" | "empty">>
    roots,     \* the channel directories that exist
    args,      \* [thresh, keep, dry]: match_threshold, keep_empty_files, dry_run
    pc,        \* "call" | "moving" | "done"
    result,    \* "none" | "ok" | "err_dir" | "err_parse" | "err_meta" | "panic"
               \* | "err_mkdir" | "err_io" | "err_rename"
    counts,    \* the returned tuple, <<>> before a successful return
    found,     \* [channel -> files discovered by find_files]
    df,        \* [channel -> data frame handed to join_dataframes]
    empties,   \* [channel -> rgb_df_empty / nir_df_empty]
    joint,     \* joint_df
    matched,   \* matched_df
    unmatched, \* [channel -> Path column of unmatched_<ch>_df]
    phase,     \* 0 before the moves, 1..6 the move blocks of lines 306-347
    todo,      \* rows of the current move_files call not yet renamed
    start,     \* history: [fs, dirs] when the current call began
    prev,      \* history: the previous call, NoPrev during the first
    calls      \* history: number of calls begun

vars == <<fs, dirs, roots, args, pc, result, counts, found, df, empties,
          joint, matched, unmatched, phase, todo, start, prev, calls>>

plan == <<found, df, empties, joint, matched, unmatched>>
hist == <<start, prev, calls>>

PathOf(f) == [ch |-> f.ch, dir |-> f.dir, name |-> f.name]

\* ---------------------------------------------------------------- Init
\* The files a camera directory may hold at the start: a well-named file in
\* the directory itself (with or without content) or in a nested
\* subdirectory, a file whose 16-character prefix is no timestamp, and a
\* file whose stem is shorter than 16 characters.
FileOptions ==
    {[ch |-> c, dir |-> "root", name |-> TimeStem(t), bytes |-> b, from |-> "root"] :
        c \in Channels, t \in Times, b \in {0, 1}}
    \cup {[ch |-> c, dir |-> "sub", name |-> TimeStem(t), bytes |-> 1, from |-> "sub"] :
        c \in Channels, t \in Times}
    \cup {[ch |-> c, dir |-> "root", name |-> n, bytes |-> 1, from |-> "root"] :
        c \in Channels, n \in {BadStem, ShortStem}}

RECURSIVE UpTo(_, _)
UpTo(S, k) ==
    IF k = 0 THEN {{}}
    ELSE LET smaller == UpTo(S, k - 1)
         IN smaller \cup {s \cup {x} : s \in smaller, x \in S}

UniquePaths(F) == \A f, g \in F : PathOf(f) = PathOf(g) => f = g

NoCols == [c \in Channels |-> {}]
NoPrev == [args |-> [thresh |-> 0, keep |-> FALSE, dry |-> FALSE],
           result |-> "none", counts |-> <<>>, fs |-> {}, dirs |-> {}]

\* Well-named files with content, in the directory or a subdirectory of it.
JoinOptions ==
    {[ch |-> c, dir |-> d, name |-> TimeStem(t), bytes |-> 1, from |-> d] :
        c \in Channels, t \in Times, d \in {"root", "sub"}}

InitWith(options, maxFiles, dryRuns) ==
    /\ roots \in SUBSET Channels
    /\ fs \in {F \in UpTo(options, maxFiles) :
                 /\ UniquePaths(F)
                 /\ \A f \in F : f.ch \in roots}
    /\ dirs = {}
    /\ args \in [thresh : Thresholds, keep : BOOLEAN, dry : dryRuns]
    /\ pc = "call"
    /\ result = "none"
    /\ counts = <<>>
    /\ found = NoCols
    /\ df = NoCols
    /\ empties = NoCols
    /\ joint = {}
    /\ matched = {}
    /\ unmatched = NoCols
    /\ phase = 0
    /\ todo = {}
    /\ start = [fs |-> fs, dirs |-> dirs]
    /\ prev = NoPrev
    /\ calls = 1

Init == InitWith(FileOptions, MaxFiles, BOOLEAN)

\* The starting points of the behaviours with repeated calls: the first call
\* is a dry run, the later ones choose dry_run freely (CallAgain).
InitRerun == InitWith(FileOptions, MaxRerunFiles, {TRUE})

\* Dry runs over more files, for the properties of the join and the split.
InitJoin == InitWith(JoinOptions, MaxJoinFiles, {TRUE})

\* ------------------------------------------------------------ discovery
\* find_files / find_files_recursive: every .iiq file below the channel
\* directory, whatever subdirectory it is in.
find_files(disk, ch) == {f \in disk : f.ch = ch}

\* ----------------------------------------------------------- make_iiq_df
\* NaiveDateTime::parse_from_str(&stem[..16], "%y%m%d_%H%M%S%3f"): the slice
\* panics when the stem has fewer than 16 bytes, the parse returns Err when
\* the prefix is no timestamp, and otherwise yields the instant.
ParseStem(stem) ==
    IF stem.len < StemPrefixLen THEN [kind |-> "panic", ts |-> 0]
    ELSE IF ~stem.valid THEN [kind |-> "err", ts |-> 0]
    ELSE [kind |-> "ok", ts |-> stem.t]

\* One row of the data frame: Path, (Stem,) Datetime, Bytes.
Entity(f) == [path |-> PathOf(f), ts |-> ParseStem(f.name).ts, bytes |-> f.bytes]

\* The ways make_iiq_df can end on the files found.  The datetimes are
\* collected in directory order and the first failure ends the call, so with
\* a short and an ill-formed stem present either can come first.  With all
\* stems parsed, fs::metadata may still fail on any file (the file system's
\* doing), which also ends the call.
make_iiq_df_outcomes(files) ==
    LET kinds == {ParseStem(f.name).kind : f \in files}
    IN  (IF "panic" \in kinds THEN {"panic"} ELSE {})
        \cup (IF "err" \in kinds THEN {"err_parse"} ELSE {})
        \cup (IF kinds \subseteq {"ok"}
              THEN {"ok"} \cup (IF files # {} THEN {"err_meta"} ELSE {})
              ELSE {})

make_iiq_df(files) == {Entity(f) : f \in files}

\* Lines 248-249: the RGB frame is built first, the NIR frame only after it.
BuildOutcomes(disk) ==
    LET r == make_iiq_df_outcomes(find_files(disk, "rgb"))
        n == make_iiq_df_outcomes(find_files(disk, "nir"))
    IN  (r \ {"ok"}) \cup (IF "ok" \in r THEN n ELSE {})

\* ------------------------------------------------------ zero-byte filter
\* col("Bytes").lt_eq(0)
EmptyRows(frame) == {e \in frame : e.bytes <= 0}
\* col("Bytes").gt(0)
NonEmptyRows(frame) == {e \in frame : e.bytes > 0}

\* Lines 255-258.  (FilterEmptyMut: the filter applied whatever the flag.)
FilterEmptyMut(frame, keep) == NonEmptyRows(frame)
FilterEmpty(frame, keep) == IF ~keep THEN NonEmptyRows(frame) ELSE frame

\* -------------------------------------------------------- join_dataframes
Dist(a, b) == IF a >= b THEN a - b ELSE b - a

\* sort(["Datetime"], default): the sort is not stable, so which row of a run
\* of equal Datetime ends up last is arbitrary.  The as-of join only ever
\* returns the last row of such a run, so a sorted frame is represented by
\* the set of rows that are last of their run.
SortLast(frame) ==
    {L \in SUBSET frame :
        /\ \A e \in frame : \E l \in L : l.ts = e.ts
        /\ \A a, b \in L : a.ts = b.ts => a = b}

\* AsofStrategy::Nearest, no tolerance: the right row closest in time; of an
\* earlier and a later row at the same distance the later one; null when the
\* right frame has no row.  (AsofNearestEarlier: the earlier one on a tie.)
AsofNearestEarlier(t, last) ==
    IF last = {} THEN NoEntity
    ELSE CHOOSE l \in last : \A o \in last :
            \/ Dist(l.ts, t) < Dist(o.ts, t)
            \/ Dist(l.ts, t) = Dist(o.ts, t) /\ l.ts <= o.ts
AsofNearest(t, last) ==
    IF last = {} THEN NoEntity
    ELSE CHOOSE l \in last : \A o \in last :
            \/ Dist(l.ts, t) < Dist(o.ts, t)
            \/ Dist(l.ts, t) = Dist(o.ts, t) /\ l.ts >= o.ts

\* Lines 205-219: both Datetime columns cast to microseconds, subtracted,
\* abs(); null when a side is null.
TimeDiff(r, n) ==
    IF r = NoEntity \/ n = NoEntity THEN NullDt
    ELSE Dist(r.ts * MicrosPerMilli, n.ts * MicrosPerMilli)

JoinedRow(r, n) == [rgb |-> r, nir |-> n, dt |-> TimeDiff(r, n)]

\* Lines 151-201: every RGB row with its nearest NIR row, every NIR row with
\* its nearest RGB row, stacked, duplicate rows removed.
\* (join_rgb_only: the first as-of join alone, without the stacked second.)
join_rgb_only(rgb_df, nir_df, lastRgb, lastNir) ==
    {JoinedRow(r, AsofNearest(r.ts, lastNir)) : r \in rgb_df}
join_dataframes(rgb_df, nir_df, lastRgb, lastNir) ==
    {JoinedRow(r, AsofNearest(r.ts, lastNir)) : r \in rgb_df}
    \cup {JoinedRow(AsofNearest(n.ts, lastRgb), n) : n \in nir_df}

\* ------------------------------------------------------ threshold split
\* match_threshold.as_nanos() as i64
ThreshNanos(ms) == ms * NanosPerMilli

\* col("dt").lt_eq(thresh_exp): a null dt never passes the filter.
\* (WithinThreshStrict: lt in place of lt_eq.)
WithinThreshStrict(dt, thresh) ==
    dt # NullDt /\ dt * NanosPerMicro < ThreshNanos(thresh)
WithinThresh(dt, thresh) ==
    dt # NullDt /\ dt * NanosPerMicro <= ThreshNanos(thresh)

\* Lines 267-271.
MatchedRows(j, thresh) == {row \in j : WithinThresh(row.dt, thresh)}

Col(rows, ch) == {IF ch = "rgb" THEN row.rgb.path ELSE row.nir.path : row \in rows}

\* Lines 273-297: anti join of joint_df with matched_df on the Path column,
\* then unique.  A null key matches nothing, so a null Path stays.
\* (UnmatchedPathsByRow: the rows outside matched_df, not the paths.)
UnmatchedPathsByRow(j, m, ch) == Col(j \ m, ch)
UnmatchedPaths(j, m, ch) ==
    {p \in Col(j, ch) : p = NoPath \/ p \notin Col(m, ch)}

\* ------------------------------------------------------------- move_files
\* fs::rename(path, dir.join(path.file_name())): fails when nothing is at the
\* source path; leaves the disk alone when source and destination are the
\* same path; otherwise the file takes the destination path, replacing
\* whatever file was there.
CanRename(disk, src) == \E f \in disk : PathOf(f) = src

Rename(disk, src, dstdir) ==
    IF src.dir = dstdir THEN disk
    ELSE LET f == CHOOSE x \in disk : PathOf(x) = src
             dst == [src EXCEPT !.dir = dstdir]
         IN  {x \in disk : PathOf(x) # src /\ PathOf(x) # dst}
             \cup {[f EXCEPT !.dir = dstdir]}

\* The move blocks of process_images in program order (lines 308-346):
\* 1, 2 matched RGB / NIR into the channel directory; 3, 4 unmatched RGB /
\* NIR into `unmatched`; 5, 6 zero-byte RGB / NIR into `empty`.
LastPhase == 6
PhaseChannel(k) == IF k \in {1, 3, 5} THEN "rgb" ELSE "nir"
PhaseDir(k) == IF k <= 2 THEN "root" ELSE IF k <= 4 THEN "unmatched" ELSE "empty"

\* The rows move_files walks in block k: one rename per row of the frame,
\* null paths skipped (flatten).  The partner is kept with a matched row, as
\* matched_df has one row per pair and a path may occur in several rows.
PhaseRows(k, m, um, em) ==
    IF k <= 2
    THEN {[src |-> (IF k = 1 THEN row.rgb.path ELSE row.nir.path),
           with |-> (IF k = 1 THEN row.nir.path ELSE row.rgb.path)] : row \in m}
    ELSE IF k <= 4
    THEN {[src |-> p, with |-> NoPath] : p \in um[PhaseChannel(k)] \ {NoPath}}
    ELSE {[src |-> e.path, with |-> NoPath] : e \in em[PhaseChannel(k)]}

\* Whether block k is entered: the matched blocks always, an unmatched block
\* when its frame has a row (height() > 0, a null row counts), an empty block
\* when keep_empty_files is off and the frame has a row.
PhaseEntered(k, um, em, keep) ==
    IF k <= 2 THEN TRUE
    ELSE IF k <= 4 THEN um[PhaseChannel(k)] # {}
    ELSE ~keep /\ em[PhaseChannel(k)] # {}

\* The next block after k that does something: a matched block with no row
\* makes no call that touches the disk and is passed over.
PhaseActive(k, m, um, em, keep) ==
    /\ PhaseEntered(k, um, em, keep)
    /\ k <= 2 => m # {}

NextPhase(k, m, um, em, keep) ==
    LET later == {j \in (k + 1)..LastPhase : PhaseActive(j, m, um, em, keep)}
    IN  IF later = {} THEN LastPhase + 1
        ELSE CHOOSE j \in later : \A i \in later : j <= i

\* Line 306: the move blocks run unless dry_run is set.
\* (MovesEnabledAlways: the flag ignored.)
MovesEnabledAlways(a) == TRUE
MovesEnabled(a) == ~a.dry

\* ---------------------------------------------------------------- actions
\* Lines 233-235: rgb_dir.exists() and nir_dir.exists(); the call goes on only
\* when both hold.  (DirsExistEither: one existing directory is enough.)
DirsExistEither(r) == "rgb" \in r \/ "nir" \in r
DirsExist(r) == "rgb" \in r /\ "nir" \in r

Finish(r) ==
    /\ pc' = "done"
    /\ result' = r

\* Lines 232-241: a channel directory is missing.
DirCheckFail ==
    /\ pc = "call"
    /\ ~DirsExist(roots)
    /\ Finish("err_dir")
    /\ UNCHANGED <<fs, dirs, roots, args, counts, plan, phase, todo, hist>>

\* Lines 243-249: make_iiq_df fails (or panics) for a channel.
BuildFail ==
    /\ pc = "call"
    /\ DirsExist(roots)
    /\ \E out \in BuildOutcomes(fs) \ {"ok"} : Finish(out)
    /\ UNCHANGED <<fs, dirs, roots, args, counts, plan, phase, todo, hist>>

\* The five numbers of line 350.
Counts(fnd, m, em) ==
    <<Cardinality(fnd["rgb"]), Cardinality(fnd["nir"]), Cardinality(m),
      Cardinality(em["rgb"]), Cardinality(em["nir"])>>

\* Lines 243-304: discovery, frames, zero-byte split, join, threshold split.
Classify ==
    /\ pc = "call"
    /\ DirsExist(roots)
    /\ "ok" \in BuildOutcomes(fs)
    /\ LET fnd == [c \in Channels |-> find_files(fs, c)]
           all == [c \in Channels |-> make_iiq_df(fnd[c])]
           em == [c \in Channels |-> EmptyRows(all[c])]
           in == [c \in Channels |-> FilterEmpty(all[c], args.keep)]
       IN  \E lastRgb \in SortLast(in["rgb"]), lastNir \in SortLast(in["nir"]) :
             LET j == join_dataframes(in["rgb"], in["nir"], lastRgb, lastNir)
                 m == MatchedRows(j, args.thresh)
             IN  /\ found' = fnd
                 /\ df' = in
                 /\ empties' = em
                 /\ joint' = j
                 /\ matched' = m
                 /\ unmatched' = [c \in Channels |-> UnmatchedPaths(j, m, c)]
    /\ pc' = "moving"
    /\ UNCHANGED <<fs, dirs, roots, args, result, counts, phase, todo, hist>>

\* Lines 312-346: a block is entered; its directory is created first
\* (create_dir_all), then move_files starts on its rows.
EnterPhase ==
    /\ pc = "moving"
    /\ MovesEnabled(args)
    /\ todo = {}
    /\ LET k == NextPhase(phase, matched, unmatched, empties, args.keep)
       IN  /\ k <= LastPhase
           /\ phase' = k
           /\ dirs' = IF k <= 2 THEN dirs ELSE dirs \cup {<<PhaseChannel(k), PhaseDir(k)>>}
           /\ todo' = PhaseRows(k, matched, unmatched, empties)
    /\ UNCHANGED <<fs, roots, args, pc, result, counts, plan, hist>>

\* fs::create_dir_all returns an error.
MkdirFail ==
    /\ pc = "moving"
    /\ MovesEnabled(args)
    /\ todo = {}
    /\ LET k == NextPhase(phase, matched, unmatched, empties, args.keep)
       IN  /\ k <= LastPhase
           /\ k > 2
           /\ phase' = k
    /\ Finish("err_mkdir")
    /\ UNCHANGED <<fs, dirs, roots, args, counts, plan, todo, hist>>

\* Line 120: one fs::rename of move_files succeeds.  The frame's row order is
\* that of unique(), which is arbitrary.
MoveOne ==
    /\ pc = "moving"
    /\ \E it \in todo :
         /\ CanRename(fs, it.src)
         /\ fs' = Rename(fs, it.src, PhaseDir(phase))
         /\ todo' = todo \ {it}
    /\ UNCHANGED <<dirs, roots, args, pc, result, counts, plan, phase, hist>>

\* Line 120: fs::rename returns an error because nothing is at the source
\* path any more; `?` ends process_images there.
MoveMissing ==
    /\ pc = "moving"
    /\ \E it \in todo : ~CanRename(fs, it.src)
    /\ Finish("err_rename")
    /\ UNCHANGED <<fs, dirs, roots, args, counts, plan, phase, todo, hist>>

\* Line 120: fs::rename returns an error for a reason outside the program
\* (permissions, a full or read-only volume).
MoveIoFail ==
    /\ pc = "moving"
    /\ todo # {}
    /\ Finish("err_io")
    /\ UNCHANGED <<fs, dirs, roots, args, counts, plan, phase, todo, hist>>

\* Line 350: Ok with the counts; reached at once in a dry run.
Return ==
    /\ pc = "moving"
    /\ todo = {}
    /\ \/ ~MovesEnabled(args)
       \/ NextPhase(phase, matched, unmatched, empties, args.keep) > LastPhase
    /\ counts' = Counts(found, matched, empties)
    /\ Finish("ok")
    /\ UNCHANGED <<fs, dirs, roots, args, plan, phase, todo, hist>>

Next ==
    \/ DirCheckFail
    \/ BuildFail
    \/ Classify
    \/ EnterPhase
    \/ MkdirFail
    \/ MoveOne
    \/ MoveMissing
    \/ MoveIoFail
    \/ Return

Spec == Init /\ [][Next]_vars

\* process_images with dry_run set never reaches the move blocks.
NextJoin ==
    \/ DirCheckFail
    \/ BuildFail
    \/ Classify
    \/ Return

SpecJoin == InitJoin /\ [][NextJoin]_vars

\* The program is run again on the same directories after a run that
\* returned Ok, with the same threshold and keep_empty_files.
CallAgain ==
    /\ pc = "done"
    /\ result = "ok"
    /\ calls < MaxCalls
    /\ prev' = [args |-> args, result |-> result, counts |-> counts,
                fs |-> fs, dirs |-> dirs]
    /\ \E d \in BOOLEAN : args' = [args EXCEPT !.dry = d]
    /\ start' = [fs |-> fs, dirs |-> dirs]
    /\ calls' = calls + 1
    /\ pc' = "call"
    /\ result' = "none"
    /\ counts' = <<>>
    /\ found' = NoCols
    /\ df' = NoCols
    /\ empties' = NoCols
    /\ joint' = {}
    /\ matched' = {}
    /\ unmatched' = NoCols
    /\ phase' = 0
    /\ todo' = {}
    /\ UNCHANGED <<fs, dirs, roots>>

NextRerun ==
    \/ Next
    \/ CallAgain

SpecRerun == InitRerun /\ [][NextRerun]_vars

\* Repeated calls of which the first is not a dry run.
InitIdem == InitWith(FileOptions, MaxRerunFiles, {FALSE})

SpecIdem == InitIdem /\ [][NextRerun]_vars

\* ================================================================ claims
\* The frames, the join and the split of the current call have been computed.
Classified ==
    /\ pc # "call"
    /\ result \notin {"err_dir", "err_parse", "err_meta", "panic"}

Returned(r) == pc = "done" /\ result = r

OtherChannel(c) == IF c = "rgb" THEN "nir" ELSE "rgb"
Side(row, c) == IF c = "rgb" THEN row.rgb ELSE row.nir

\* |timestamp difference| of a row with both sides, in milliseconds.
RowMillis(row) == Dist(row.rgb.ts, row.nir.ts)
BothSides(row) == row.rgb # NoEntity /\ row.nir # NoEntity

\* C1: the matched result is one-to-one: no RGB path and no NIR path occurs
\* in more than one row of matched_df.
C1_OneToOne ==
    Classified =>
        \A a, b \in matched :
            (a.rgb.path = b.rgb.path \/ a.nir.path = b.nir.path) => a = b

\* C2: a joined pair whose time difference equals the threshold is in the
\* matched set and neither of its files is in an unmatched set; a joined row
\* is left out of the matched set only when its difference is greater than
\* the threshold or a side is absent.
C2_InclusiveBoundary ==
    Classified =>
        /\ \A row \in joint :
               (BothSides(row) /\ RowMillis(row) = args.thresh) =>
                   /\ row \in matched
                   /\ row.rgb.path \notin unmatched["rgb"]
                   /\ row.nir.path \notin unmatched["nir"]
        /\ \A row \in joint \ matched :
               ~BothSides(row) \/ RowMillis(row) > args.thresh

\* A pair one millisecond apart under a threshold of one millisecond has been
\* classified and the run has returned Ok.
C2_Witness ==
    /\ Returned("ok")
    /\ args.thresh > 0
    /\ \E row \in matched : RowMillis(row) = args.thresh

\* The file of start.fs that was at path p, and the same file on the disk
\* now (a file keeps its channel, its name and the directory it came from).
SameFile(x, f0) == x.ch = f0.ch /\ x.name = f0.name /\ x.from = f0.from
AtStart(p) == {f0 \in start.fs : PathOf(f0) = p}
SuccessfulRun == Returned("ok") /\ ~args.dry

\* C3: after a successful non-dry run every file that took part in matching
\* is in one of two places: in its channel directory when it belongs to a
\* pair within the threshold, and otherwise in `unmatched`, no longer at its
\* original path.
C3_FilesPlaced ==
    (SuccessfulRun /\ df["rgb"] # {} /\ df["nir"] # {}) =>
        \A c \in Channels : \A e \in df[c] : \A f0 \in AtStart(e.path) :
            IF e.path \in Col(matched, c)
            THEN \E x \in fs : SameFile(x, f0) /\ x.dir = "root"
            ELSE /\ \E x \in fs : SameFile(x, f0) /\ x.dir = "unmatched"
                 /\ ~CanRename(fs, e.path)

\* The rows of frame `others` nearest in time to e.
NearestIn(e, others) ==
    {t \in others : \A o \in others : Dist(t.ts, e.ts) <= Dist(o.ts, e.ts)}

Shorter(c) == Cardinality(df[c]) < Cardinality(df[OtherChannel(c)])

\* e, of the shorter channel c, cannot hold the claim on any file of the
\* longer channel: for each file nearest to e another file of c is strictly
\* closer to it.
NonClaimant(c, e) ==
    /\ Shorter(c)
    /\ e \in df[c]
    /\ \A t \in NearestIn(e, df[OtherChannel(c)]) :
           \E e2 \in df[c] \ {e} : Dist(e2.ts, t.ts) < Dist(e.ts, t.ts)

\* C4 as stated: a file of the shorter channel that is not the closest
\* claimant of any file of the longer channel is absent from the joined
\* result, from the matched set and from its channel's unmatched set.
C4_DriverDropped ==
    Classified =>
        \A c \in Channels : \A e \in df[c] :
            NonClaimant(c, e) =>
                /\ e.path \notin Col(joint, c)
                /\ e.path \notin Col(matched, c)
                /\ e.path \notin unmatched[c]

\* C4 as amended: such a file is in the joined result, in a row with a file
\* of the longer channel nearest to it, and it is in exactly one of the
\* matched set and its channel's unmatched set: matched when that nearest
\* file is within the threshold, unmatched otherwise.
C4_DriverKept ==
    Classified =>
        \A c \in Channels : \A e \in df[c] :
            NonClaimant(c, e) =>
                /\ \E row \in joint :
                       /\ Side(row, c) = e
                       /\ Side(row, OtherChannel(c)) \in NearestIn(e, df[OtherChannel(c)])
                /\ (e.path \in Col(matched, c)) # (e.path \in unmatched[c])
                /\ (e.path \in Col(matched, c)) <=>
                       \E t \in df[OtherChannel(c)] : Dist(t.ts, e.ts) <= args.thresh

\* A dry run has returned Ok with a file of the shorter channel that holds no
\* claim and is in its channel's unmatched set.
C4_Witness ==
    /\ Returned("ok")
    /\ \E c \in Channels : \E e \in df[c] :
           NonClaimant(c, e) /\ e.path \in unmatched[c]

\* C5: with both channels non-empty, each file of the longer (or
\* equal-length) channel is in exactly one row of the joined result.
C5_TargetExactlyOnce ==
    (Classified /\ df["rgb"] # {} /\ df["nir"] # {}) =>
        \A c \in Channels :
            ~Shorter(c) =>
                \A e \in df[c] :
                    Cardinality({row \in joint : Side(row, c).path = e.path}) = 1

\* C6: a dry run changes nothing on disk (no rename, no directory), and a
\* non-dry run on the same inputs (the run that follows a dry run, with the
\* same threshold and keep_empty_files) returns the same five counts.
C6_DryRun ==
    /\ args.dry => (fs = start.fs /\ dirs = start.dirs)
    /\ (Returned("ok") /\ ~args.dry /\ prev.result = "ok" /\ prev.args.dry) =>
           /\ start.fs = prev.fs
           /\ counts = prev.counts

\* A non-dry run that moved a file has returned the counts of the dry run
\* before it, with a matched pair among them.
C6_Witness ==
    /\ Returned("ok")
    /\ ~args.dry
    /\ prev.result = "ok"
    /\ prev.args.dry
    /\ counts = prev.counts
    /\ counts[3] > 0
    /\ fs # start.fs

ZeroByte(disk, c) == {f \in disk : f.ch = c /\ f.bytes = 0}
CountPair(i, c) == counts[IF c = "rgb" THEN i ELSE i + 1]

\* C7: with keep_empty_files = false no zero-byte file enters the join or
\* occurs in the matched or an unmatched set; the empty counts are the
\* numbers of zero-byte files and countA, countB count all files found; and
\* after a non-dry run every zero-byte file is in its channel's `empty`.
C7_EmptyRemoved ==
    ~args.keep =>
        /\ Classified =>
               \A c \in Channels :
                   /\ \A e \in df[c] : e.bytes > 0
                   /\ \A row \in joint : Side(row, c) # NoEntity => Side(row, c).bytes > 0
                   /\ \A f0 \in ZeroByte(start.fs, c) : PathOf(f0) \notin unmatched[c]
        /\ Returned("ok") =>
               \A c \in Channels :
                   /\ CountPair(4, c) = Cardinality(ZeroByte(start.fs, c))
                   /\ CountPair(1, c) = Cardinality(find_files(start.fs, c))
        /\ SuccessfulRun =>
               \A c \in Channels : \A f0 \in ZeroByte(start.fs, c) :
                   \E x \in fs : SameFile(x, f0) /\ x.dir = "empty"

\* C8: with keep_empty_files = true the zero-byte files enter the join with
\* all the others and every file that entered is in the joined result; the
\* empty counts are still the numbers of zero-byte files; no `empty`
\* directory is created and no file is moved into one.
C8_KeepEmpty ==
    args.keep =>
        /\ Classified =>
               \A c \in Channels :
                   /\ df[c] = {Entity(f0) : f0 \in find_files(start.fs, c)}
                   /\ \A e \in df[c] : e.path \in Col(joint, c)
        /\ Returned("ok") =>
               \A c \in Channels :
                   CountPair(4, c) = Cardinality(ZeroByte(start.fs, c))
        /\ \A c \in Channels : <<c, "empty">> \notin dirs
        /\ \A x \in fs : x.dir = "empty" => x \in start.fs

\* A non-dry run that kept the empty files has returned Ok with a zero-byte
\* RGB file in a matched pair and counted as empty.
C8_Witness ==
    /\ SuccessfulRun
    /\ args.keep
    /\ counts[4] > 0
    /\ \E row \in matched : row.rgb.bytes = 0

\* C9: a run either returns Ok with every planned move made, or ends in an
\* error with no file moved and no directory created.
C9_AllOrNothing ==
    pc = "done" =>
        \/ /\ result = "ok"
           /\ todo = {}
           /\ MovesEnabled(args) =>
                  NextPhase(phase, matched, unmatched, empties, args.keep) > LastPhase
        \/ /\ result # "ok"
           /\ fs = start.fs
           /\ dirs = start.dirs

Unparsable(disk) == {f \in disk : ParseStem(f.name).kind # "ok"}

\* C10: when the name of a discovered file does not parse, or metadata
\* cannot be read, process_images returns an error; nothing has been moved
\* or created and no frame has been handed to the join.
C10_ParseFailureAborts ==
    (/\ pc = "done"
     /\ roots = Channels
     /\ Unparsable(start.fs) # {} \/ result \in {"err_meta", "panic"}) =>
        /\ result \in {"err_parse", "err_meta"}
        /\ fs = start.fs
        /\ dirs = start.dirs
        /\ df = NoCols
        /\ joint = {}

\* The frame of channel c that the current call hands to the join, computed
\* from the disk at the start of the call.
Entering(c) == FilterEmpty(make_iiq_df(find_files(start.fs, c)), args.keep)

OneChannelEmpty ==
    \E c \in Channels : Entering(c) = {} /\ Entering(OtherChannel(c)) # {}

\* C11: when exactly one channel has no file entering the match and the
\* other has at least one, process_images returns an error: nothing is
\* classified and no file is moved.
C11_EmptyChannelFails ==
    (/\ pc # "call"
     /\ roots = Channels
     /\ Unparsable(start.fs) = {}
     /\ OneChannelEmpty) =>
        /\ pc = "done"
        /\ result # "ok"
        /\ joint = {}
        /\ fs = start.fs

\* C12: when a channel directory is missing the call returns the directory
\* error before any file is discovered, and nothing is moved or created.
C12_MissingDirFails ==
    (roots # Channels /\ pc # "call") =>
        /\ Returned("err_dir")
        /\ found = NoCols
        /\ df = NoCols
        /\ fs = start.fs
        /\ dirs = start.dirs

\* The call has returned the directory error with the NIR directory missing
\* and files present in the RGB directory.
C12_Witness ==
    /\ Returned("err_dir")
    /\ roots = {"rgb"}
    /\ fs # {}

ShortStems(disk) == {f \in disk : f.name.len < StemPrefixLen}

\* C13: with a file whose stem is shorter than 16 characters the call ends
\* with an error value (the parse error, or an error met on an earlier
\* file); it never panics.
C13_ShortStemIsError ==
    (pc = "done" /\ roots = Channels /\ ShortStems(start.fs) # {}) =>
        result \in {"err_parse", "err_meta"}

\* e has files of the other channel at one smallest distance on both sides of
\* it in time.
Tied(c, e) ==
    \E a, b \in NearestIn(e, df[OtherChannel(c)]) : a.ts < b.ts

\* C14 as stated: the lookup of the join returns, for every file and every
\* non-empty other channel, a file of that channel at the smallest distance
\* in time, and of the files at that distance one with the earliest
\* timestamp; the joined result pairs the file with it.
C14_NearestEarlier ==
    Classified =>
        \A c \in Channels : \A e \in df[c] :
            LET others == df[OtherChannel(c)]
                near == NearestIn(e, others)
            IN  others # {} =>
                    /\ \A last \in SortLast(others) :
                           LET t == AsofNearest(e.ts, last)
                           IN  t \in near /\ \A o \in near : t.ts <= o.ts
                    /\ \E row \in joint :
                           /\ Side(row, c) = e
                           /\ Side(row, OtherChannel(c)) \in near
                           /\ \A o \in near : Side(row, OtherChannel(c)).ts <= o.ts

\* C14 as amended: the same, but of the files at the smallest distance the
\* lookup returns one with the latest timestamp.
C14_NearestLater ==
    Classified =>
        \A c \in Channels : \A e \in df[c] :
            LET others == df[OtherChannel(c)]
                near == NearestIn(e, others)
            IN  others # {} =>
                    /\ \A last \in SortLast(others) :
                           LET t == AsofNearest(e.ts, last)
                           IN  t \in near /\ \A o \in near : o.ts <= t.ts
                    /\ \E row \in joint :
                           /\ Side(row, c) = e
                           /\ Side(row, OtherChannel(c)) \in near
                           /\ \A o \in near : o.ts <= Side(row, OtherChannel(c)).ts

\* A dry run has returned Ok with an RGB file that has a NIR file just before
\* it and one just after it, and another RGB file that is nearer to one of
\* the two.
C14_Witness ==
    /\ Returned("ok")
    /\ \E e, e2 \in df["rgb"] :
           /\ Tied("rgb", e)
           /\ df["nir"] \ NearestIn(e2, df["nir"]) # {}

\* C15: a channel's `unmatched` directory exists only after a non-dry run in
\* which the channel has an unmatched file to move into it.
C15_UnmatchedDirOnlyIfNeeded ==
    \A c \in Channels :
        <<c, "unmatched">> \in dirs =>
            /\ ~args.dry
            /\ unmatched[c] \ {NoPath} # {}

WithinOfOther(c, e) ==
    \E t \in df[OtherChannel(c)] : Dist(t.ts, e.ts) <= args.thresh

\* C16: with both channels non-empty a file is in the matched set exactly
\* when some file of the other channel (hence the nearest) is within the
\* threshold of it, and in its channel's unmatched set exactly when none is.
C16_MatchedIffNearestWithin ==
    (Classified /\ df["rgb"] # {} /\ df["nir"] # {}) =>
        \A c \in Channels : \A e \in df[c] :
            /\ (e.path \in Col(matched, c)) <=> WithinOfOther(c, e)
            /\ (e.path \in unmatched[c]) <=> ~WithinOfOther(c, e)

\* A dry run has returned Ok with an RGB file that is matched with its
\* nearest NIR file and is also in a joined row beyond the threshold, and
\* with an unmatched NIR file.
C16_Witness ==
    /\ Returned("ok")
    /\ \E row \in matched : \E far \in joint \ matched :
           row.rgb.path = far.rgb.path
    /\ unmatched["nir"] \ {NoPath} # {}

\* The source paths move block k hands to fs::rename.
RenamedIn(k) == {it.src : it \in PhaseRows(k, matched, unmatched, empties)}
ActivePhases ==
    {k \in 1..LastPhase : PhaseActive(k, matched, unmatched, empties, args.keep)}

\* C17: in a non-dry run no source path is handed to fs::rename twice,
\* within a move block or across them, and the run never fails on a file it
\* has already moved.
C17_OneRenamePerPath ==
    (Classified /\ ~args.dry) =>
        /\ \A k \in ActivePhases :
               \A a, b \in PhaseRows(k, matched, unmatched, empties) :
                   a.src = b.src => a = b
        /\ \A j, k \in ActivePhases :
               j # k => RenamedIn(j) \cap RenamedIn(k) = {}
        /\ result # "err_rename"

\* C18: after a successful non-dry run each channel directory holds as many
\* files as were discovered at the start, and every file present at the
\* start is still there.
C18_FilesConserved ==
    SuccessfulRun =>
        /\ \A c \in Channels :
               Cardinality(find_files(fs, c)) = CountPair(1, c)
        /\ \A f0 \in start.fs : \E x \in fs : SameFile(x, f0)

\* C19: a run that follows a successful non-dry run, with the same threshold
\* and keep_empty_files, moves no file, and unless an I/O call fails it
\* returns Ok with the same five counts.
C19_RerunIdempotent ==
    (calls > 1 /\ prev.result = "ok" /\ ~prev.args.dry) =>
        /\ fs = prev.fs
        /\ (pc = "done" /\ result \notin {"err_io", "err_mkdir", "err_meta"}) =>
               /\ result = "ok"
               /\ counts = prev.counts

====
